---- MODULE Spec2Model ----
(***************************************************************************)
(* Students & Courses CRUD service (FastAPI + SQLAlchemy).                 *)
(*                                                                         *)
(* The state is the relational store (tables students, courses and the    *)
(* association table student_course), the requests whose session has read *)
(* but not yet committed, and the last HTTP response sent.                 *)
(*                                                                         *)
(* Handlers are plain `def` functions: the framework runs them on worker   *)
(* threads, each with its own session, so requests overlap (at most        *)
(* MaxInFlight of them between their read and their commit).  The two      *)
(* handlers that decide on data read before their commit                   *)
(* (bulk_create_students: `existing`; enroll: `course in student.courses`) *)
(* are two steps, read and commit; the commit re-checks only what the      *)
(* database's constraints check.  Every other handler's unit of work is    *)
(* one step.                                                               *)
(*                                                                         *)
(* Optional[T] is a set with at most one element: None is {}.              *)
(***************************************************************************)
EXTENDS Integers, Sequences, FiniteSets, Bags, TLC

\* ---------------------------------------------------------------- bounds
MaxStudents == 2
MaxCourses == 1
MaxBatch == 2
MaxInFlight == 2

StudentIds == 1..MaxStudents
CourseIds == 1..MaxCourses

Emails == {"a@x.io", "b@x.io"}
Names == {"Ann", "Bob"}
Ages == {20, 21}
Titles == {"Algebra", "Biology"}
Descriptions == {{}, {"intro"}}
Credits == {1, 2}

\* Valid request bodies (schemas.py): what passes validation.
StudentCreate == [name : Names, email : Emails, age : Ages]
StudentUpdate ==
  [name : {{}, {"Bob"}}, email : {{}} \cup {{e} : e \in Emails}, age : {{}, {21}}]
CourseCreate == [title : Titles, description : Descriptions, credits : Credits]
CourseUpdate ==
  [title : {{}, {"Biology"}}, description : Descriptions, credits : {{}, {2}}]

\* The smaller bodies used where only the email (or nothing) of a body matters.
StudentCreateSmall == [name : {"Ann"}, email : Emails, age : {20}]
StudentUpdateSmall ==
  [name : {{}}, email : {{}} \cup {{e} : e \in Emails}, age : {{}}]
CourseCreateSmall == [title : {"Algebra"}, description : {{}}, credits : {1}]
CourseUpdateSmall == [title : {{}, {"Biology"}}, description : {{}}, credits : {{}}]

\* ------------------------------------------------------------ status codes
HTTP_200_OK == 200
HTTP_201_CREATED == 201
HTTP_204_NO_CONTENT == 204
HTTP_401_UNAUTHORIZED == 401
HTTP_404_NOT_FOUND == 404
HTTP_409_CONFLICT == 409
\* An exception no handler catches leaves the application as a server error.
HTTP_500_INTERNAL_SERVER_ERROR == 500

\* ------------------------------------------------------------------ state
VARIABLES
  students,        \* table students: id -> [name, email, age]
  courses,         \* table courses: id -> [title, description, credits]
  student_course,  \* association table: <<student_id, course_id>> -> number of rows
  foreign_keys,    \* whether the engine behind DATABASE_URL enforces FOREIGN KEYs
  inflight,        \* bag of the requests that have read and not yet committed
  resp             \* the last response sent

store == <<students, courses, student_course>>
vars == <<students, courses, student_course, foreign_keys, inflight, resp>>

\* ---------------------------------------------------------------- helpers
Put(f, k, v) == [x \in DOMAIN f \cup {k} |-> IF x = k THEN v ELSE f[x]]
Drop(f, k) == [x \in DOMAIN f \ {k} |-> f[x]]
Min(S) == CHOOSE x \in S : \A y \in S : x <= y

RECURSIVE SortedSeq(_)
SortedSeq(S) == IF S = {} THEN <<>> ELSE <<Min(S)>> \o SortedSeq(S \ {Min(S)})

RECURSIVE SelectWhere(_, _)
\* [x for x in s if x.email \notin bad], order kept
SelectWhere(s, bad) ==
  IF s = <<>> THEN <<>>
  ELSE (IF Head(s).email \in bad THEN <<>> ELSE <<Head(s)>>) \o SelectWhere(Tail(s), bad)

SeqsUpTo(S, n) == UNION {[1..k -> S] : k \in 0..n}

\* A session between its read and its commit: what the handler holds.
Session(op, key_ok, sid, cid, to_create, errors) ==
  [op |-> op, auth |-> key_ok, sid |-> sid, cid |-> cid,
   to_create |-> to_create, errors |-> errors]

\* ---------------------------------------------------------------- security
DEFAULT_API_KEY == "secret123"
\* X-API-KEY headers: absent, the configured key, another key
Keys == {{}, {DEFAULT_API_KEY}, {"wrong"}}

\* get_api_key: TRUE when it returns, FALSE when it raises 401
get_api_key(x_api_key) == x_api_key # {} /\ x_api_key = {DEFAULT_API_KEY}

Endpoints ==
  {"create_student", "bulk_create_students", "list_students", "get_student",
   "update_student", "delete_student", "enroll", "unenroll", "create_course",
   "list_courses", "get_course", "update_course", "delete_course",
   "students_in_course"}

\* the routes declared with dependencies=[Depends(get_api_key)]: all of them
ProtectedSkipDelete == Endpoints \ {"delete_student"}
Protected == Endpoints

\* The dependency runs before the handler; a handler runs only if it returned.
Authorized(ep, key) == ep \in Protected => get_api_key(key)

\* ---------------------------------------------------------------- responses
\* an HTTPException detail that names no emails
Detail(msg) == [msg |-> msg, emails |-> {}]

Response(op, status, key) ==
  [op |-> op, status |-> status, auth |-> get_api_key(key), exc |-> "none",
   wrote |-> FALSE, body |-> <<>>, courses |-> {}, detail |-> {}]

\* ------------------------------------------------------- database constraints
\* Student.email unique=True: another row already holds this email.
EmailConflictOff(rows, email, self) == FALSE
EmailConflict(rows, email, self) ==
  \E id \in DOMAIN rows \ self : rows[id].email = email

\* student_course primary key (student_id, course_id) / uq_student_course
PairConflict(sid, cid) == student_course[<<sid, cid>>] > 0

\* ForeignKey("students.id"), ForeignKey("courses.id"): checked only by an
\* engine that enforces foreign keys
ForeignKeyViolation(sid, cid) ==
  foreign_keys /\ (sid \notin DOMAIN students \/ cid \notin DOMAIN courses)

\* joinedload(Student.courses): the courses joined through the association table
CoursesOf(sc, cs, sid) == {c \in DOMAIN cs : sc[<<sid, c>>] > 0}
StudentsOf(sc, ss, cid) == {s \in DOMAIN ss : sc[<<s, cid>>] > 0}

\* ------------------------------------------------------------------- Init
Init ==
  /\ students = <<>>
  /\ courses = <<>>
  /\ student_course = [p \in StudentIds \X CourseIds |-> 0]
  /\ foreign_keys \in BOOLEAN
  /\ inflight = EmptyBag
  /\ resp = Response("startup", HTTP_200_OK, {DEFAULT_API_KEY})

\* ------------------------------------------------------ students endpoints
\* main.create_student: `except IntegrityError` answers 409
create_student_uncaught == HTTP_500_INTERNAL_SERVER_ERROR
create_student_on_integrity_error == HTTP_409_CONFLICT

\* POST /students/ : crud.create_student commits the INSERT; IntegrityError is
\* rolled back, re-raised and answered 409.
create_student(key, d) ==
  /\ Authorized("create_student", key)
  /\ UNCHANGED <<courses, student_course, foreign_keys, inflight>>
  /\ IF EmailConflict(students, d.email, {})
     THEN /\ students' = students
          /\ resp' = [Response("create_student", create_student_on_integrity_error, key)
                        EXCEPT !.exc = "unique", !.detail = {Detail("Email already exists")}]
     ELSE \E id \in StudentIds \ DOMAIN students :
            /\ students' = Put(students, id, d)
            /\ resp' = [Response("create_student", HTTP_201_CREATED, key)
                          EXCEPT !.wrote = TRUE]

\* crud.bulk_create_students up to the commit: the records to insert and the
\* aggregate error messages, from the payload and the emails read from the table.
dup_within(payload) ==
  {e \in {payload[i].email : i \in DOMAIN payload} :
     \E i, j \in DOMAIN payload :
       i # j /\ payload[i].email = e /\ payload[j].email = e}
existing(payload, rows) ==
  {e \in {rows[id].email : id \in DOMAIN rows} :
     \E i \in DOMAIN payload : payload[i].email = e}
bulk_errors(payload, rows) ==
  LET dup == dup_within(payload)
      found == existing(payload, rows)
  IN (IF dup # {}
      THEN {[msg |-> "Duplicate emails in payload", emails |-> dup]}
      ELSE {})
     \cup
     (IF found # {}
      THEN {[msg |-> "Emails already exist", emails |-> found]}
      ELSE {})
creatable(payload, rows) ==
  SelectWhere(payload, existing(payload, rows) \cup dup_within(payload))

\* main.bulk_create_students after the crud call: 409 with the errors when
\* nothing was created and there are errors, else 201 with the created records.
bulk_response_never_conflict(created, errors, key) ==
  [Response("bulk_create_students", HTTP_201_CREATED, key)
     EXCEPT !.body = [i \in DOMAIN created |-> created[i].email],
            !.wrote = created # <<>>]
bulk_response(created, errors, key) ==
  IF errors # {} /\ created = <<>>
  THEN [Response("bulk_create_students", HTTP_409_CONFLICT, key)
          EXCEPT !.detail = errors]
  ELSE [Response("bulk_create_students", HTTP_201_CREATED, key)
          EXCEPT !.body = [i \in DOMAIN created |-> created[i].email],
                 !.wrote = created # <<>>]

\* POST /students/bulk, up to db.commit(): with nothing to create the handler
\* answers at once; otherwise the session holds the records to insert.
BulkBegin(n, key, payload) ==
  /\ Authorized("bulk_create_students", key)
  /\ BagCardinality(inflight) < n
  /\ UNCHANGED <<store, foreign_keys>>
  /\ LET to_create == creatable(payload, students)
         errors == bulk_errors(payload, students)
     IN IF to_create = <<>>
        THEN /\ resp' = bulk_response(to_create, errors, key)
             /\ UNCHANGED inflight
        ELSE /\ inflight' = inflight (+) SetToBag({
                   Session("bulk_create_students", get_api_key(key), 0, 0,
                           to_create, errors)})
             /\ UNCHANGED resp

\* db.add_all(to_create); db.commit(): the INSERTs of one transaction.  A unique
\* violation raises IntegrityError, which neither crud nor the handler catches;
\* the session is closed and the transaction rolled back.
BulkCommit(r) ==
  LET n == Len(r.to_create)
      key == IF r.auth THEN {DEFAULT_API_KEY} ELSE {}
  IN /\ BagIn(r, inflight)
     /\ r.op = "bulk_create_students"
     /\ inflight' = inflight (-) SetToBag({r})
     /\ UNCHANGED <<courses, student_course, foreign_keys>>
     /\ IF \E i \in 1..n : EmailConflict(students, r.to_create[i].email, {})
        THEN /\ students' = students
             /\ resp' = [Response("bulk_create_students",
                                  HTTP_500_INTERNAL_SERVER_ERROR, key)
                           EXCEPT !.exc = "unique"]
        ELSE \E S \in SUBSET (StudentIds \ DOMAIN students) :
               /\ Cardinality(S) = n
               /\ LET ids == SortedSeq(S)
                  IN students' =
                       [id \in DOMAIN students \cup S |->
                          IF id \in S
                          THEN r.to_create[CHOOSE i \in 1..n : ids[i] = id]
                          ELSE students[id]]
               /\ resp' = bulk_response(r.to_create, r.errors, key)

\* GET /students/ : rows in storage (id) order, offset skip, at most limit
list_students(key, skip, limit) ==
  /\ Authorized("list_students", key)
  /\ UNCHANGED <<store, foreign_keys, inflight>>
  /\ LET ids == SortedSeq(DOMAIN students)
         page == SubSeq(ids, skip + 1,
                        IF skip + limit < Len(ids) THEN skip + limit ELSE Len(ids))
     IN resp' = [Response("list_students", HTTP_200_OK, key)
                   EXCEPT !.body = [i \in DOMAIN page |-> students[page[i]].email]]

\* GET /students/{student_id}
get_student(key, sid) ==
  /\ Authorized("get_student", key)
  /\ UNCHANGED <<store, foreign_keys, inflight>>
  /\ resp' = IF sid \in DOMAIN students
             THEN [Response("get_student", HTTP_200_OK, key)
                     EXCEPT !.courses = CoursesOf(student_course, courses, sid)]
             ELSE Response("get_student", HTTP_404_NOT_FOUND, key)

\* crud.update_student: only the fields provided overwrite the loaded row
The(S) == CHOOSE x \in S : TRUE
patch_student_email_with_name(old, data) ==
  [name |-> IF data.name # {} THEN The(data.name) ELSE old.name,
   email |-> IF data.name # {} /\ data.email # {} THEN The(data.email) ELSE old.email,
   age |-> IF data.age # {} THEN The(data.age) ELSE old.age]
patch_student(old, data) ==
  [name |-> IF data.name # {} THEN The(data.name) ELSE old.name,
   email |-> IF data.email # {} THEN The(data.email) ELSE old.email,
   age |-> IF data.age # {} THEN The(data.age) ELSE old.age]

\* PUT /students/{student_id} : IntegrityError at commit is rolled back and
\* answered 409; an unknown id is answered 404.
update_student(key, sid, data) ==
  /\ Authorized("update_student", key)
  /\ UNCHANGED <<courses, student_course, foreign_keys, inflight>>
  /\ IF sid \notin DOMAIN students
     THEN /\ students' = students
          /\ resp' = Response("update_student", HTTP_404_NOT_FOUND, key)
     ELSE LET new == patch_student(students[sid], data)
          IN IF EmailConflict(students, new.email, {sid})
             THEN /\ students' = students
                  /\ resp' = [Response("update_student", HTTP_409_CONFLICT, key)
                                EXCEPT !.exc = "unique",
                                       !.detail = {Detail("Email already exists")}]
             ELSE /\ students' = [students EXCEPT ![sid] = new]
                  /\ resp' = [Response("update_student", HTTP_200_OK, key)
                                EXCEPT !.wrote = (new # students[sid])]

\* db.delete(student): the unit of work deletes the association rows of the
\* loaded Student.courses collection (relationship(secondary=student_course)),
\* and an engine enforcing foreign keys cascades (ondelete="CASCADE").
rows_after_delete_student(sc, sid) ==
  [p \in DOMAIN sc |->
     IF p[1] = sid /\ (p[2] \in DOMAIN courses \/ foreign_keys) THEN 0 ELSE sc[p]]
rows_after_delete_course(sc, cid) ==
  [p \in DOMAIN sc |->
     IF p[2] = cid /\ (p[1] \in DOMAIN students \/ foreign_keys) THEN 0 ELSE sc[p]]

\* DELETE /students/{student_id}
delete_student(key, sid) ==
  /\ Authorized("delete_student", key)
  /\ UNCHANGED <<courses, foreign_keys, inflight>>
  /\ IF sid \notin DOMAIN students
     THEN /\ UNCHANGED <<students, student_course>>
          /\ resp' = Response("delete_student", HTTP_404_NOT_FOUND, key)
     ELSE /\ students' = Drop(students, sid)
          /\ student_course' = rows_after_delete_student(student_course, sid)
          /\ resp' = [Response("delete_student", HTTP_204_NO_CONTENT, key)
                        EXCEPT !.wrote = TRUE]

\* `if not student or not course: return None`
either_missing_and(sid, cid) == sid \notin DOMAIN students /\ cid \notin DOMAIN courses
either_missing(sid, cid) == sid \notin DOMAIN students \/ cid \notin DOMAIN courses

\* POST /students/{student_id}/enroll/{course_id}, up to db.commit(): 404 when
\* either is missing, the student as it is when already enrolled; otherwise the
\* session holds the appended course.
EnrollBegin(n, key, sid, cid) ==
  /\ Authorized("enroll", key)
  /\ BagCardinality(inflight) < n
  /\ UNCHANGED <<store, foreign_keys>>
  /\ IF either_missing(sid, cid)
     THEN /\ resp' = [Response("enroll", HTTP_404_NOT_FOUND, key)
                        EXCEPT !.detail = {Detail("Student or course not found")}]
          /\ UNCHANGED inflight
     ELSE IF cid \in CoursesOf(student_course, courses, sid)
     THEN /\ resp' = [Response("enroll", HTTP_200_OK, key)
                        EXCEPT !.courses = CoursesOf(student_course, courses, sid)]
          /\ UNCHANGED inflight
     ELSE /\ inflight' = inflight (+) SetToBag({
                Session("enroll", get_api_key(key), sid, cid, <<>>, {})})
          /\ UNCHANGED resp

\* db.commit() of the appended course: INSERT INTO student_course.  crud rolls an
\* IntegrityError back and re-raises it; the handler does not catch it.  After
\* the commit db.refresh(student) raises if the student row is gone.
EnrollCommit(r) ==
  LET key == IF r.auth THEN {DEFAULT_API_KEY} ELSE {}
  IN /\ BagIn(r, inflight)
     /\ r.op = "enroll"
     /\ inflight' = inflight (-) SetToBag({r})
     /\ UNCHANGED <<students, courses, foreign_keys>>
     /\ IF PairConflict(r.sid, r.cid)
        THEN /\ student_course' = student_course
             /\ resp' = [Response("enroll", HTTP_500_INTERNAL_SERVER_ERROR, key)
                           EXCEPT !.exc = "unique"]
        ELSE IF ForeignKeyViolation(r.sid, r.cid)
        THEN /\ student_course' = student_course
             /\ resp' = [Response("enroll", HTTP_500_INTERNAL_SERVER_ERROR, key)
                           EXCEPT !.exc = "foreign_key"]
        ELSE /\ student_course' =
                  [student_course EXCEPT ![<<r.sid, r.cid>>] = @ + 1]
             /\ resp' =
                  IF r.sid \notin DOMAIN students
                  THEN [Response("enroll", HTTP_500_INTERNAL_SERVER_ERROR, key)
                          EXCEPT !.exc = "refresh", !.wrote = TRUE]
                  ELSE [Response("enroll", HTTP_200_OK, key)
                          EXCEPT !.wrote = TRUE,
                                 !.courses =
                                   CoursesOf(student_course', courses, r.sid)]

\* POST /students/{student_id}/unenroll/{course_id}
unenroll(key, sid, cid) ==
  /\ Authorized("unenroll", key)
  /\ UNCHANGED <<students, courses, foreign_keys, inflight>>
  /\ IF either_missing(sid, cid)
     THEN /\ student_course' = student_course
          /\ resp' = [Response("unenroll", HTTP_404_NOT_FOUND, key)
                        EXCEPT !.detail = {Detail("Student or course not found")}]
     ELSE /\ student_course' =
               IF cid \in CoursesOf(student_course, courses, sid)
               THEN [student_course EXCEPT ![<<sid, cid>>] = @ - 1]
               ELSE student_course
          /\ resp' = [Response("unenroll", HTTP_200_OK, key)
                        EXCEPT !.wrote = (student_course' # student_course),
                               !.courses = CoursesOf(student_course', courses, sid)]

\* ------------------------------------------------------- courses endpoints
\* POST /courses/
create_course(key, d) ==
  /\ Authorized("create_course", key)
  /\ UNCHANGED <<students, student_course, foreign_keys, inflight>>
  /\ \E id \in CourseIds \ DOMAIN courses :
       /\ courses' = Put(courses, id, d)
       /\ resp' = [Response("create_course", HTTP_201_CREATED, key)
                     EXCEPT !.wrote = TRUE]

\* GET /courses/
list_courses(key, skip, limit) ==
  /\ Authorized("list_courses", key)
  /\ UNCHANGED <<store, foreign_keys, inflight>>
  /\ LET ids == SortedSeq(DOMAIN courses)
         page == SubSeq(ids, skip + 1,
                        IF skip + limit < Len(ids) THEN skip + limit ELSE Len(ids))
     IN resp' = [Response("list_courses", HTTP_200_OK, key)
                   EXCEPT !.body = [i \in DOMAIN page |-> courses[page[i]].title]]

\* GET /courses/{course_id}
get_course(key, cid) ==
  /\ Authorized("get_course", key)
  /\ UNCHANGED <<store, foreign_keys, inflight>>
  /\ resp' = IF cid \in DOMAIN courses
             THEN Response("get_course", HTTP_200_OK, key)
             ELSE Response("get_course", HTTP_404_NOT_FOUND, key)

\* crud.update_course: only the fields provided overwrite the loaded row
patch_course_always_description(old, data) ==
  [title |-> IF data.title # {} THEN The(data.title) ELSE old.title,
   description |-> data.description,
   credits |-> IF data.credits # {} THEN The(data.credits) ELSE old.credits]
patch_course(old, data) ==
  [title |-> IF data.title # {} THEN The(data.title) ELSE old.title,
   description |-> IF data.description # {} THEN data.description ELSE old.description,
   credits |-> IF data.credits # {} THEN The(data.credits) ELSE old.credits]

\* PUT /courses/{course_id}
update_course(key, cid, data) ==
  /\ Authorized("update_course", key)
  /\ UNCHANGED <<students, student_course, foreign_keys, inflight>>
  /\ IF cid \notin DOMAIN courses
     THEN /\ courses' = courses
          /\ resp' = Response("update_course", HTTP_404_NOT_FOUND, key)
     ELSE LET new == patch_course(courses[cid], data)
          IN /\ courses' = [courses EXCEPT ![cid] = new]
             /\ resp' = [Response("update_course", HTTP_200_OK, key)
                           EXCEPT !.wrote = (new # courses[cid])]

\* DELETE /courses/{course_id}
delete_course(key, cid) ==
  /\ Authorized("delete_course", key)
  /\ UNCHANGED <<students, foreign_keys, inflight>>
  /\ IF cid \notin DOMAIN courses
     THEN /\ UNCHANGED <<courses, student_course>>
          /\ resp' = Response("delete_course", HTTP_404_NOT_FOUND, key)
     ELSE /\ courses' = Drop(courses, cid)
          /\ student_course' = rows_after_delete_course(student_course, cid)
          /\ resp' = [Response("delete_course", HTTP_204_NO_CONTENT, key)
                        EXCEPT !.wrote = TRUE]

\* GET /courses/{course_id}/students
students_in_course(key, cid, skip, limit) ==
  /\ Authorized("students_in_course", key)
  /\ UNCHANGED <<store, foreign_keys, inflight>>
  /\ IF cid \notin DOMAIN courses
     THEN resp' = Response("students_in_course", HTTP_404_NOT_FOUND, key)
     ELSE LET ids == SortedSeq(StudentsOf(student_course, students, cid))
              page == SubSeq(ids, skip + 1,
                        IF skip + limit < Len(ids) THEN skip + limit ELSE Len(ids))
          IN resp' = [Response("students_in_course", HTTP_200_OK, key)
                        EXCEPT !.body = [i \in DOMAIN page |-> students[page[i]].email]]

\* A request whose X-API-KEY is missing or wrong: the dependency raises 401 and
\* the handler does not run.
Unauthorized(ep, key) ==
  /\ ~Authorized(ep, key)
  /\ resp' = Response(ep, HTTP_401_UNAUTHORIZED, key)
  /\ UNCHANGED <<store, foreign_keys, inflight>>

\* ------------------------------------------------------------ specifications
\* the default engine (DATABASE_URL unset: SQLite, no foreign key enforcement)
InitDefault == Init /\ foreign_keys = FALSE

StudentRequests(C, U) ==
  \/ \E key \in Keys, d \in C : create_student(key, d)
  \/ \E key \in Keys, sid \in StudentIds, d \in U : update_student(key, sid, d)
  \/ \E key \in Keys, sid \in StudentIds : delete_student(key, sid)

\* the payloads of POST /students/bulk: lists of at most MaxBatch bodies
Payloads == SeqsUpTo(StudentCreateSmall, MaxBatch)

BulkRequests(n) ==
  \/ \E key \in Keys, p \in Payloads :
       BulkBegin(n, key, p)
  \/ \E r \in BagToSet(inflight) : BulkCommit(r)

StudentReads ==
  \/ \E key \in Keys, sid \in StudentIds : get_student(key, sid)
  \/ \E key \in Keys, skip \in {0, 1}, limit \in {1, 10} : list_students(key, skip, limit)

EnrollRequests(n) ==
  \/ \E key \in Keys, sid \in StudentIds, cid \in CourseIds :
       EnrollBegin(n, key, sid, cid)
  \/ \E r \in BagToSet(inflight) : EnrollCommit(r)
  \/ \E key \in Keys, sid \in StudentIds, cid \in CourseIds : unenroll(key, sid, cid)

CourseRequests(C, U) ==
  \/ \E key \in Keys, d \in C : create_course(key, d)
  \/ \E key \in Keys, cid \in CourseIds, d \in U : update_course(key, cid, d)
  \/ \E key \in Keys, cid \in CourseIds : delete_course(key, cid)

CourseReads ==
  \/ \E key \in Keys, cid \in CourseIds : get_course(key, cid)
  \/ \E key \in Keys, skip \in {0, 1}, limit \in {1, 10} : list_courses(key, skip, limit)
  \/ \E key \in Keys, cid \in CourseIds, skip \in {0, 1}, limit \in {1, 10} :
       students_in_course(key, cid, skip, limit)

\* Every endpoint with the small request bodies; one request may be between its
\* read and its commit while the other requests run.
Next ==
  \/ StudentRequests(StudentCreateSmall, StudentUpdateSmall)
  \/ BulkRequests(1)
  \/ StudentReads
  \/ EnrollRequests(1)
  \/ CourseRequests(CourseCreateSmall, CourseUpdateSmall)
  \/ CourseReads
  \/ \E ep \in Endpoints, key \in Keys : Unauthorized(ep, key)

Spec == Init /\ [][Next]_vars

\* The students table alone: create, bulk create, update, delete, overlapping.
NextStudents ==
  \/ StudentRequests(StudentCreateSmall, StudentUpdateSmall)
  \/ BulkRequests(MaxInFlight)

SpecStudents == InitDefault /\ [][NextStudents]_vars

\* Enrollment: students and courses come and go, pairs are enrolled and
\* unenrolled by overlapping requests, on either kind of engine.
NextEnroll ==
  \/ \E key \in Keys, d \in StudentCreateSmall : create_student(key, d)
  \/ \E key \in Keys, sid \in StudentIds : delete_student(key, sid)
  \/ \E key \in Keys, d \in CourseCreateSmall : create_course(key, d)
  \/ \E key \in Keys, cid \in CourseIds : delete_course(key, cid)
  \/ EnrollRequests(MaxInFlight)

SpecEnroll == Init /\ [][NextEnroll]_vars

\* Partial updates with the full request bodies, on enrolled and other records.
NextUpdate ==
  \/ \E key \in Keys, d \in StudentCreate : create_student(key, d)
  \/ \E key \in Keys, sid \in StudentIds, d \in StudentUpdate :
       update_student(key, sid, d)
  \/ \E key \in Keys, d \in CourseCreate : create_course(key, d)
  \/ \E key \in Keys, cid \in CourseIds, d \in CourseUpdate :
       update_course(key, cid, d)
  \/ \E key \in Keys, sid \in StudentIds, cid \in CourseIds :
       EnrollBegin(1, key, sid, cid)
  \/ \E r \in BagToSet(inflight) : EnrollCommit(r)

SpecUpdate == InitDefault /\ [][NextUpdate]_vars
\* ------------------------------------------------------------------ claims
Stored(email) == \E id \in DOMAIN students : students[id].email = email
Enrolled(sid, cid) == student_course[<<sid, cid>>] > 0
DuplicateError(emails) == [msg |-> "Duplicate emails in payload", emails |-> emails]

\* C1: POST /students/ with a valid body whose email a stored student already
\* has answers 409 and leaves the students table as it was.
C1_DuplicateEmailConflict ==
  [][\A key \in Keys, d \in StudentCreate :
       (resp'.op = "create_student" /\ Stored(d.email) /\ create_student(key, d))
         => (resp'.status = HTTP_409_CONFLICT /\ students' = students)]_vars

C1_Witness ==
  /\ resp.op = "create_student"
  /\ resp.status = HTTP_409_CONFLICT
  /\ DOMAIN students # {}

\* C2: a bulk create that accepted exactly one record (B) while recording that
\* another email (A's) already exists creates B and delivers the conflict
\* message about A's email in its response.
C2_PartialBulkReportsConflict ==
  [][\A r \in BagToSet(inflight) :
       (/\ BulkCommit(r)
        /\ Len(r.to_create) = 1
        /\ \E e \in r.errors : e.msg = "Emails already exist")
         => (/\ resp'.body = <<r.to_create[1].email>>
             /\ \E id \in DOMAIN students' :
                  students'[id].email = r.to_create[1].email
             /\ \E e \in resp'.detail : e.msg = "Emails already exist")]_vars

\* C3: a bulk create in which no candidate is accepted and an error was recorded
\* (in particular a batch in which every email is repeated) inserts nothing and
\* answers 409 carrying the errors, the duplicate-emails error among them.
C3_BulkTotalFailureConflict ==
  [][(\/ resp'.op = "bulk_create_students" /\ inflight' = inflight
      \/ BagCardinality(inflight') > BagCardinality(inflight)) =>
     \A key \in Keys, p \in Payloads :
       BulkBegin(MaxInFlight, key, p) =>
         /\ (creatable(p, students) = <<>> /\ bulk_errors(p, students) # {})
              => (/\ resp'.status = HTTP_409_CONFLICT
                  /\ resp'.detail = bulk_errors(p, students)
                  /\ students' = students
                  /\ inflight' = inflight)
         /\ (p # <<>> /\ \A i \in DOMAIN p : \E j \in DOMAIN p :
                                               j # i /\ p[j].email = p[i].email)
              => (/\ resp'.status = HTTP_409_CONFLICT
                  /\ DuplicateError({p[i].email : i \in DOMAIN p})
                       \in resp'.detail
                  /\ students' = students
                  /\ inflight' = inflight)]_vars

C3_Witness ==
  /\ resp.op = "bulk_create_students"
  /\ resp.status = HTTP_409_CONFLICT
  /\ \E e \in resp.detail : e.msg = "Duplicate emails in payload"

\* C4: an enroll(s, c) whose commit runs while s and c exist ends in success with
\* exactly one (s, c) row, whether or not another enroll(s, c) overlapped it.
C4_EnrollTwiceBothSucceed ==
  [][\A r \in BagToSet(inflight) :
       (/\ EnrollCommit(r)
        /\ r.sid \in DOMAIN students
        /\ r.cid \in DOMAIN courses)
         => (/\ resp'.status = HTTP_200_OK
             /\ student_course'[<<r.sid, r.cid>>] = 1)]_vars

\* C5: a request whose commit violated a uniqueness constraint ends in 409.
C5_UniqueViolationIsConflict ==
  resp.exc = "unique" => resp.status = HTTP_409_CONFLICT

\* C6: no two stored student rows have the same email.
C6_EmailsUnique ==
  \A i, j \in DOMAIN students : students[i].email = students[j].email => i = j

C6_Witness ==
  /\ Cardinality(DOMAIN students) = 2
  /\ resp.op = "bulk_create_students"
  /\ resp.exc = "unique"

\* C7: every association row refers to a student and a course that exist.
C7_NoDanglingAssociation ==
  \A p \in DOMAIN student_course :
    student_course[p] > 0 => (p[1] \in DOMAIN students /\ p[2] \in DOMAIN courses)

\* C8: unenroll of an existing, not enrolled pair changes nothing and answers
\* 200 with the student's course list; enroll and unenroll of a missing student
\* or course answer 404 and change nothing.
C8_UnenrollNoOpAndNotFound ==
  [][\A key \in Keys, sid \in StudentIds, cid \in CourseIds :
       /\ (resp'.op = "unenroll" /\ unenroll(key, sid, cid)) =>
            /\ (sid \in DOMAIN students /\ cid \in DOMAIN courses /\ ~Enrolled(sid, cid))
                 => (/\ resp'.status = HTTP_200_OK
                     /\ resp'.courses = {c \in DOMAIN courses : Enrolled(sid, c)}
                     /\ UNCHANGED store)
            /\ (sid \notin DOMAIN students \/ cid \notin DOMAIN courses)
                 => (resp'.status = HTTP_404_NOT_FOUND /\ UNCHANGED store)
       /\ (/\ (\/ resp'.op = "enroll" /\ inflight' = inflight
               \/ BagCardinality(inflight') > BagCardinality(inflight))
           /\ (sid \notin DOMAIN students \/ cid \notin DOMAIN courses)
           /\ EnrollBegin(MaxInFlight, key, sid, cid))
            => (/\ resp'.status = HTTP_404_NOT_FOUND
                /\ UNCHANGED <<store, inflight>>)]_vars

C8_Witness ==
  /\ resp.op = "unenroll"
  /\ resp.status = HTTP_200_OK
  /\ ~resp.wrote
  /\ \E sid \in DOMAIN students : CoursesOf(student_course, courses, sid) # {}

\* C9: on every endpoint a missing or wrong X-API-KEY is refused, and a request
\* answered with a missing or wrong key is answered 401 and changes no table.
C9_BadKeyUnauthorizedNoAccess ==
  [][~resp'.auth =>
       /\ resp'.status = HTTP_401_UNAUTHORIZED
       /\ UNCHANGED store
       /\ \A ep \in Endpoints, key \in Keys :
            (key = {} \/ key # {DEFAULT_API_KEY}) => ~Authorized(ep, key)]_vars

C9_Witness ==
  /\ ~resp.auth
  /\ resp.status = HTTP_401_UNAUTHORIZED
  /\ DOMAIN students # {}
  /\ DOMAIN courses # {}

\* C10: an update of an existing record overwrites exactly the provided fields
\* and leaves the rest of the store alone; an unknown id answers 404 and changes
\* nothing; a student email held by another student answers 409 and changes
\* nothing.
C10_PartialUpdateFrame ==
  [][/\ resp'.op = "update_student" =>
        \A key \in Keys, sid \in StudentIds, d \in StudentUpdate :
          update_student(key, sid, d) =>
            IF sid \notin DOMAIN students
            THEN resp'.status = HTTP_404_NOT_FOUND /\ UNCHANGED store
            ELSE IF d.email # {} /\ \E o \in DOMAIN students \ {sid} :
                                       students[o].email = The(d.email)
            THEN resp'.status = HTTP_409_CONFLICT /\ UNCHANGED store
            ELSE /\ resp'.status = HTTP_200_OK
                 /\ UNCHANGED <<courses, student_course>>
                 /\ DOMAIN students' = DOMAIN students
                 /\ \A o \in DOMAIN students \ {sid} : students'[o] = students[o]
                 /\ students'[sid].name =
                      (IF d.name = {} THEN students[sid].name ELSE The(d.name))
                 /\ students'[sid].email =
                      (IF d.email = {} THEN students[sid].email ELSE The(d.email))
                 /\ students'[sid].age =
                      (IF d.age = {} THEN students[sid].age ELSE The(d.age))
     /\ resp'.op = "update_course" =>
        \A key \in Keys, cid \in CourseIds, d \in CourseUpdate :
          update_course(key, cid, d) =>
            IF cid \notin DOMAIN courses
            THEN resp'.status = HTTP_404_NOT_FOUND /\ UNCHANGED store
            ELSE /\ resp'.status = HTTP_200_OK
                 /\ UNCHANGED <<students, student_course>>
                 /\ DOMAIN courses' = DOMAIN courses
                 /\ \A o \in DOMAIN courses \ {cid} : courses'[o] = courses[o]
                 /\ courses'[cid].title =
                      (IF d.title = {} THEN courses[cid].title ELSE The(d.title))
                 /\ courses'[cid].description =
                      (IF d.description = {} THEN courses[cid].description
                       ELSE d.description)
                 /\ courses'[cid].credits =
                      (IF d.credits = {} THEN courses[cid].credits
                       ELSE The(d.credits))]_vars

C10_Witness ==
  /\ resp.op = "update_student"
  /\ resp.status = HTTP_200_OK
  /\ resp.wrote
  /\ Cardinality(DOMAIN students) = 2
  /\ \E sid \in DOMAIN students : CoursesOf(student_course, courses, sid) # {}
====
